---- MODULE Spec2Model ----
(***************************************************************************)
(* Model of backend/server.py: the storefront's route handlers over the    *)
(* MongoDB collections users, products, topup_requests, purchases and      *)
(* blog_posts.                                                             *)
(*                                                                         *)
(* Every handler is a coroutine; each `await db....` is one atomic store   *)
(* operation and the Python code up to the next await runs with it.  A     *)
(* handler is therefore a pure step operator  handler(d, r)  from a store  *)
(* d and a request r (its inputs, its position pc and its locals) to the   *)
(* store and request after the next store operation.                       *)
(*   Spec         serves each request to completion in one action          *)
(*                (requests one after another), from the empty store;      *)
(*   HistorySpec  is Spec started also from a store with a long purchase   *)
(*                history;                                                 *)
(*   ConcSpec     interleaves the store operations of up to MaxInFlight    *)
(*                requests;                                                *)
(*   FaultSpec    serves the top-up routes one after another, any store    *)
(*                operation of which may raise and end the request.        *)
(* reqs[s] is the request in slot s, or the response of the last request   *)
(* that finished there; Spec and HistorySpec use slot 1 only.              *)
(* Money amounts (Python floats) are modelled as integers.  Documents keep *)
(* the fields the handlers read or write; uuid4 ids are the position of    *)
(* the document in its collection (documents are never deleted).           *)
(***************************************************************************)
EXTENDS Integers, Sequences, FiniteSets, TLC

VARIABLES db, reqs

vars == <<db, reqs>>

(* ------------------------------ bounds -------------------------------- *)
MaxDocs == 4
MaxInFlight == 2
MaxDrift == 2

(* to_list(100): every listing route returns at most 100 documents *)
ListLimit == 100

Emails == {"a@x", "b@x"}
BadToken == "invalid"
Tokens == Emails \cup {BadToken}
Passwords == {"p"}
None == "None"
Amounts == {1, 2}
Prices == {1, 2}

(* --------------------------- documents -------------------------------- *)
\* class User
User(id, email, password_hash, is_admin) ==
  [id |-> id, email |-> email, password_hash |-> password_hash,
   is_admin |-> is_admin, wallet_balance |-> 0]

\* class Product
Product(id, price) == [id |-> id, price |-> price, is_active |-> TRUE]

\* class TopUpRequest
TopUpRequest(id, user_id, amount) ==
  [id |-> id, user_id |-> user_id, amount |-> amount, status |-> "pending",
   processed_at |-> None, admin_notes |-> None]

\* class Purchase
Purchase(id, user_id, product_id, amount) ==
  [id |-> id, user_id |-> user_id, product_id |-> product_id, amount |-> amount]

\* class BlogPost
BlogPost(id, author_id) == [id |-> id, author_id |-> author_id, is_published |-> TRUE]

NoUser == [id |-> 0, email |-> "", password_hash |-> <<>>, is_admin |-> FALSE,
           wallet_balance |-> 0]
NoProduct == [id |-> 0, price |-> 0, is_active |-> FALSE]
NoTopUp == [id |-> 0, user_id |-> 0, amount |-> 0, status |-> "", processed_at |-> None,
            admin_notes |-> None]

\* pwd_context.hash: a bcrypt hash carries the salt drawn for it
hash_password(password, salt) == <<"bcrypt", salt, password>>
\* pwd_context.verify
verify_password(plain, hashed) == hashed = <<"bcrypt", hashed[2], plain>>

(* ------------------------ store operations ---------------------------- *)
Min(a, b) == IF a <= b THEN a ELSE b

\* collection.find_one({"id": id}): position of the first match, 0 for None
FindById(coll, id) ==
  IF \E i \in 1..Len(coll) : coll[i].id = id
  THEN CHOOSE i \in 1..Len(coll) :
         coll[i].id = id /\ \A j \in 1..(i - 1) : coll[j].id # id
  ELSE 0

\* db.users.find_one({"email": email})
FindUserByEmail(users, email) ==
  IF \E i \in 1..Len(users) : users[i].email = email
  THEN CHOOSE i \in 1..Len(users) :
         users[i].email = email /\ \A j \in 1..(i - 1) : users[j].email # email
  ELSE 0

\* collection.find({"user_id": uid}) in natural order
SelectByUser(coll, uid) == SelectSeq(coll, LAMBDA doc : doc.user_id = uid)

\* cursor.to_list(100)
to_list(found) == SubSeq(found, 1, Min(Len(found), ListLimit))

\* db.users.update_one({"id": uid}, {"$inc": {"wallet_balance": delta}})
IncWallet(users, uid, delta) ==
  LET i == FindById(users, uid) IN
    IF i = 0 THEN users
    ELSE [users EXCEPT ![i].wallet_balance = @ + delta]

SetProcessed_unfiltered(topups, id, status, notes) ==
  [i \in 1..Len(topups) |->
     [topups[i] EXCEPT !.status = status, !.processed_at = "utcnow", !.admin_notes = notes]]

\* db.topup_requests.update_one({"id": id}, {"$set": {status, processed_at, admin_notes}})
SetProcessed(topups, id, status, notes) ==
  LET i == FindById(topups, id) IN
    IF i = 0 THEN topups
    ELSE [topups EXCEPT ![i].status = status, ![i].processed_at = "utcnow",
                        ![i].admin_notes = notes]

(* ----------------------------- requests ------------------------------- *)
Ops == {"register", "create_product", "request_topup", "get_all_topup_requests",
        "approve_topup", "reject_topup", "purchase_product", "get_user_purchases",
        "create_blog_post"}

NoInput == [id |-> 0, amount |-> 0, notes |-> None, email |-> "", password |-> "",
            is_admin |-> FALSE]

\* a request as it arrives: the route, the bearer token and the inputs
Request(op, token, in) ==
  [op |-> op, token |-> token, in |-> in, pc |-> "start", status |-> 0,
   body |-> <<>>, cu |-> NoUser, request |-> NoTopUp, product |-> NoProduct]

Idle == [Request("idle", BadToken, NoInput) EXCEPT !.pc = "done"]

\* the response: return ... (200, body the documents returned) or
\* raise HTTPException(status_code, detail) (body the detail); the request's inputs
\* and locals end with it
Respond(r, status, body) ==
  [Request(r.op, BadToken, NoInput) EXCEPT !.pc = "done", !.status = status, !.body = body]

Step(d, r) == [db |-> d, r |-> r]

(* ------------------------------- auth --------------------------------- *)
\* get_current_user: 0 for a token that does not decode or whose user is unknown
get_current_user(d, r) ==
  IF r.token = BadToken THEN 0 ELSE FindUserByEmail(d.users, r.token)

AdminRequired_dropped(current_user) == FALSE

\* get_admin_user's test
AdminRequired(current_user) == ~current_user.is_admin

\* Depends(get_current_user) / Depends(get_admin_user) before the handler body
Authenticate(d, r, admin, next) ==
  LET i == get_current_user(d, r) IN
    IF i = 0 THEN Step(d, Respond(r, 401, <<"Could not validate credentials">>))
    ELSE IF admin /\ AdminRequired(d.users[i])
         THEN Step(d, Respond(r, 403, <<"Admin access required">>))
         ELSE Step(d, [r EXCEPT !.cu = d.users[i], !.pc = next])

(* ------------------------------ handlers ------------------------------ *)
EmailRegistered_dropped(users, email) == FALSE

\* register: `if existing_user`
EmailRegistered(users, email) == FindUserByEmail(users, email) # 0

\* POST /register
register(d, r) ==
  CASE r.pc = "start" ->
         IF EmailRegistered(d.users, r.in.email)
         THEN Step(d, Respond(r, 400, <<"Email already registered">>))
         ELSE Step(d, [r EXCEPT !.pc = "insert"])
    [] r.pc = "insert" ->
         LET user_obj == User(Len(d.users) + 1, r.in.email,
                              hash_password(r.in.password, Len(d.users) + 1), r.in.is_admin) IN
           Step([d EXCEPT !.users = Append(@, user_obj)], Respond(r, 200, <<user_obj>>))

\* POST /products
create_product(d, r) ==
  CASE r.pc = "start" -> Authenticate(d, r, TRUE, "insert")
    [] r.pc = "insert" ->
         LET product_obj == Product(Len(d.products) + 1, r.in.amount) IN
           Step([d EXCEPT !.products = Append(@, product_obj)],
                Respond(r, 200, <<product_obj>>))

\* POST /topup
request_topup(d, r) ==
  CASE r.pc = "start" -> Authenticate(d, r, FALSE, "insert")
    [] r.pc = "insert" ->
         LET topup_obj == TopUpRequest(Len(d.topup_requests) + 1, r.cu.id, r.in.amount) IN
           Step([d EXCEPT !.topup_requests = Append(@, topup_obj)],
                Respond(r, 200, <<topup_obj>>))

\* GET /admin/topup-requests
get_all_topup_requests(d, r) ==
  CASE r.pc = "start" -> Authenticate(d, r, TRUE, "find")
    [] r.pc = "find" -> Step(d, Respond(r, 200, to_list(d.topup_requests)))

AlreadyProcessed_rejectedOnly(request) == request.status = "rejected"

\* approve_topup / reject_topup: `if request["status"] != "pending"`
AlreadyProcessed(request) == request.status # "pending"

\* approve_topup / reject_topup up to the status test
FindPending(d, r, next) ==
  LET i == FindById(d.topup_requests, r.in.id) IN
    IF i = 0 THEN Step(d, Respond(r, 404, <<"Request not found">>))
    ELSE IF AlreadyProcessed(d.topup_requests[i])
         THEN Step(d, Respond(r, 400, <<"Request already processed">>))
         ELSE Step(d, [r EXCEPT !.request = d.topup_requests[i], !.pc = next])

CreditWallet_set(users, request) ==
  LET i == FindById(users, request.user_id) IN
    IF i = 0 THEN users ELSE [users EXCEPT ![i].wallet_balance = request.amount]

\* approve_topup: the wallet credit
CreditWallet(users, request) == IncWallet(users, request.user_id, request.amount)

approve_topup_transaction(d, r) ==
  CASE r.pc = "start" -> Authenticate(d, r, TRUE, "find")
    [] r.pc = "find" -> FindPending(d, r, "inc")
    [] r.pc = "inc" -> Step(d, [r EXCEPT !.pc = "set"])
    [] r.pc = "set" ->
         Step([d EXCEPT !.users = CreditWallet(@, r.request),
                        !.topup_requests = SetProcessed(@, r.in.id, "approved", r.in.notes)],
              Respond(r, 200, <<>>))

\* POST /admin/topup-requests/{request_id}/approve
approve_topup(d, r) ==
  CASE r.pc = "start" -> Authenticate(d, r, TRUE, "find")
    [] r.pc = "find" -> FindPending(d, r, "inc")
    [] r.pc = "inc" ->
         Step([d EXCEPT !.users = CreditWallet(@, r.request)], [r EXCEPT !.pc = "set"])
    [] r.pc = "set" ->
         Step([d EXCEPT !.topup_requests = SetProcessed(@, r.in.id, "approved", r.in.notes)],
              Respond(r, 200, <<>>))

\* POST /admin/topup-requests/{request_id}/reject
reject_topup(d, r) ==
  CASE r.pc = "start" -> Authenticate(d, r, TRUE, "find")
    [] r.pc = "find" -> FindPending(d, r, "set")
    [] r.pc = "set" ->
         Step([d EXCEPT !.topup_requests = SetProcessed(@, r.in.id, "rejected", r.in.notes)],
              Respond(r, 200, <<>>))

InsufficientBalance_lessOrEqual(current_user, product) ==
  current_user.wallet_balance <= product.price

InsufficientBalance_dropped(current_user, product) == FALSE

\* purchase_product: `if current_user.wallet_balance < product["price"]`
InsufficientBalance(current_user, product) == current_user.wallet_balance < product.price

DebitWallet_credit(users, current_user, product) ==
  IncWallet(users, current_user.id, product.price)

DebitWallet_ifCovered(users, current_user, product) ==
  LET i == FindById(users, current_user.id) IN
    IF i # 0 /\ users[i].wallet_balance >= product.price
    THEN IncWallet(users, current_user.id, -product.price)
    ELSE users

DebitWallet_fromSnapshot(users, current_user, product) ==
  LET i == FindById(users, current_user.id) IN
    IF i = 0 THEN users
    ELSE [users EXCEPT ![i].wallet_balance = current_user.wallet_balance - product.price]

\* purchase_product: the wallet debit
DebitWallet(users, current_user, product) == IncWallet(users, current_user.id, -product.price)

\* purchase_product: the purchase record
PurchaseRecord(purchases, current_user, product_id, product) ==
  Purchase(Len(purchases) + 1, current_user.id, product_id, product.price)

\* POST /purchase/{product_id}
purchase_product(d, r) ==
  CASE r.pc = "start" -> Authenticate(d, r, FALSE, "find")
    [] r.pc = "find" ->
         LET i == FindById(d.products, r.in.id) IN
           IF i = 0 THEN Step(d, Respond(r, 404, <<"Product not found">>))
           ELSE IF InsufficientBalance(r.cu, d.products[i])
                THEN Step(d, Respond(r, 400, <<"Insufficient wallet balance">>))
                ELSE Step(d, [r EXCEPT !.product = d.products[i], !.pc = "dec"])
    [] r.pc = "dec" ->
         Step([d EXCEPT !.users = DebitWallet(@, r.cu, r.product)], [r EXCEPT !.pc = "insert"])
    [] r.pc = "insert" ->
         LET purchase == PurchaseRecord(d.purchases, r.cu, r.in.id, r.product) IN
           Step([d EXCEPT !.purchases = Append(@, purchase)], Respond(r, 200, <<purchase>>))

\* GET /purchases
get_user_purchases(d, r) ==
  CASE r.pc = "start" -> Authenticate(d, r, FALSE, "find")
    [] r.pc = "find" -> Step(d, Respond(r, 200, to_list(SelectByUser(d.purchases, r.cu.id))))

\* POST /blog
create_blog_post(d, r) ==
  CASE r.pc = "start" -> Authenticate(d, r, TRUE, "insert")
    [] r.pc = "insert" ->
         LET post_obj == BlogPost(Len(d.blog_posts) + 1, r.cu.id) IN
           Step([d EXCEPT !.blog_posts = Append(@, post_obj)], Respond(r, 200, <<post_obj>>))

\* api_router: the next store operation of request r
Handle(d, r) ==
  CASE r.op = "register" -> register(d, r)
    [] r.op = "create_product" -> create_product(d, r)
    [] r.op = "request_topup" -> request_topup(d, r)
    [] r.op = "get_all_topup_requests" -> get_all_topup_requests(d, r)
    [] r.op = "approve_topup" -> approve_topup(d, r)
    [] r.op = "reject_topup" -> reject_topup(d, r)
    [] r.op = "purchase_product" -> purchase_product(d, r)
    [] r.op = "get_user_purchases" -> get_user_purchases(d, r)
    [] r.op = "create_blog_post" -> create_blog_post(d, r)

RECURSIVE Run(_, _)
\* a request served from arrival to response with no other request in between
Run(d, r) ==
  IF r.pc = "done" THEN Step(d, r)
  ELSE LET s == Handle(d, r) IN Run(s.db, s.r)

\* the positions of a handler: each is the store operation it awaits next
FailPoints(op) ==
  CASE op \in {"register", "create_product", "request_topup", "create_blog_post"} ->
         {"start", "insert"}
    [] op \in {"get_all_topup_requests", "get_user_purchases"} -> {"start", "find"}
    [] op = "approve_topup" -> {"start", "find", "inc", "set"}
    [] op = "reject_topup" -> {"start", "find", "set"}
    [] op = "purchase_product" -> {"start", "find", "dec", "insert"}

\* the awaited store operation of request r raises: no handler has a try/except
\* or a transaction, so the request ends with 500 and nothing already written is
\* undone
Raise(d, r) == Step(d, Respond(r, 500, <<"Internal Server Error">>))

RECURSIVE RunFailing(_, _, _)
\* request r served with no other request in between, its store operation at
\* position `at` raising
RunFailing(d, r, at) ==
  IF r.pc = "done" THEN Step(d, r)
  ELSE IF r.pc = at THEN Raise(d, r)
  ELSE LET s == Handle(d, r) IN RunFailing(s.db, s.r, at)

(* ------------------------ the requests a client sends ----------------- *)
RegisterInputs ==
  {[NoInput EXCEPT !.email = e, !.password = p, !.is_admin = a] :
     e \in Emails, p \in Passwords, a \in BOOLEAN}
ProductInputs == {[NoInput EXCEPT !.amount = p] : p \in Prices}
TopUpInputs == {[NoInput EXCEPT !.amount = a] : a \in Amounts}
ApproveInputs(d) ==
  {[NoInput EXCEPT !.id = i, !.notes = n] : i \in 1..(Len(d.topup_requests) + 1), n \in {"ok"}}
RejectInputs(d) ==
  {[NoInput EXCEPT !.id = i, !.notes = n] : i \in 1..(Len(d.topup_requests) + 1), n \in {""}}
PurchaseInputs(d) == {[NoInput EXCEPT !.id = i] : i \in 1..(Len(d.products) + 1)}

Inputs(d, op) ==
  CASE op = "register" -> RegisterInputs
    [] op = "create_product" -> ProductInputs
    [] op = "request_topup" -> TopUpInputs
    [] op = "approve_topup" -> ApproveInputs(d)
    [] op = "reject_topup" -> RejectInputs(d)
    [] op = "purchase_product" -> PurchaseInputs(d)
    [] OTHER -> {NoInput}

\* the bearer tokens a route is called with: register takes none; a token naming
\* an email with no user is refused like one that does not decode
TokensOf(op) == IF op = "register" THEN {BadToken} ELSE Tokens
SerialTokensOf(op) == IF op = "register" THEN {BadToken} ELSE Emails

\* the documents counted against MaxDocs: a history of ListLimit - 1 purchases
\* that a store starts with is not counted
TotalDocs(d) ==
  Len(d.users) + Len(d.products) + Len(d.topup_requests) + Len(d.blog_posts)
    + (IF Len(d.purchases) >= ListLimit - 1 THEN Len(d.purchases) - (ListLimit - 1)
       ELSE Len(d.purchases))

\* the model explores an inserting request only while the store holds fewer than
\* MaxDocs documents
Room(d, op) ==
  op \in {"register", "create_product", "request_topup", "purchase_product",
          "create_blog_post"} => TotalDocs(d) < MaxDocs

(* --------------------------- specification ---------------------------- *)
EmptyStore ==
  [users |-> <<>>, products |-> <<>>, topup_requests |-> <<>>, purchases |-> <<>>,
   blog_posts |-> <<>>]

Init ==
  /\ db = EmptyStore
  /\ reqs = [s \in 1..MaxInFlight |-> Idle]

\* one request, served to completion
Serve(op) ==
  \E token \in SerialTokensOf(op), in \in Inputs(db, op) :
    /\ Room(db, op)
    /\ LET s == Run(db, Request(op, token, in)) IN
         /\ db' = s.db
         /\ reqs' = [reqs EXCEPT ![1] = s.r]

Next ==
  \/ Serve("register")
  \/ Serve("create_product")
  \/ Serve("request_topup")
  \/ Serve("get_all_topup_requests")
  \/ Serve("approve_topup")
  \/ Serve("reject_topup")
  \/ Serve("purchase_product")
  \/ Serve("get_user_purchases")
  \/ Serve("create_blog_post")

Spec == Init /\ [][Next]_vars

(* ------------------- interleaved requests (ConcSpec) ------------------ *)
RECURSIVE RunAll(_, _)
\* the store after serving the requests of rs one after another
RunAll(d, rs) ==
  IF rs = <<>> THEN d ELSE RunAll(Run(d, Head(rs)).db, Tail(rs))

AdminEmail == "a@x"
UserEmail == "b@x"

\* a store the program reaches: an admin, a user credited 2 by an approved
\* top-up and holding one pending top-up of 1, and one product of price p
SeedStore(p) ==
  RunAll(EmptyStore,
    << Request("register", BadToken,
               [NoInput EXCEPT !.email = AdminEmail, !.password = "p", !.is_admin = TRUE]),
       Request("register", BadToken,
               [NoInput EXCEPT !.email = UserEmail, !.password = "p"]),
       Request("request_topup", UserEmail, [NoInput EXCEPT !.amount = 2]),
       Request("approve_topup", AdminEmail, [NoInput EXCEPT !.id = 1, !.notes = "ok"]),
       Request("request_topup", UserEmail, [NoInput EXCEPT !.amount = 1]),
       Request("create_product", AdminEmail, [NoInput EXCEPT !.amount = p]) >>)

ConcInit ==
  /\ db \in {EmptyStore} \cup {SeedStore(p) : p \in Prices}
  /\ reqs = [s \in 1..MaxInFlight |-> Idle]

\* request op arrives and takes the first free slot
Arrive(s, op) ==
  /\ reqs[s].pc = "done"
  /\ \A t \in 1..(s - 1) : reqs[t].pc # "done"
  /\ \E token \in TokensOf(op), in \in Inputs(db, op) :
       reqs' = [reqs EXCEPT ![s] = Request(op, token, in)]
  /\ UNCHANGED db

\* the request in slot s performs its next store operation
Advance(s) ==
  /\ reqs[s].pc # "done"
  /\ LET t == Handle(db, reqs[s]) IN
       /\ db' = t.db
       /\ reqs' = [reqs EXCEPT ![s] = t.r]

ConcNext ==
  \E s \in 1..MaxInFlight :
    \/ Arrive(s, "register")
    \/ Arrive(s, "approve_topup")
    \/ Arrive(s, "reject_topup")
    \/ Arrive(s, "purchase_product")
    \/ Advance(s)

ConcSpec == ConcInit /\ [][ConcNext]_vars

(* ------------- a long purchase history (HistorySpec) ------------------ *)
\* a store the program reaches: a user credited ListLimit + 2 by an approved
\* top-up, one product of price 1, and then ListLimit - 1 purchases of it
HistoryBase ==
  RunAll(EmptyStore,
    << Request("register", BadToken,
               [NoInput EXCEPT !.email = AdminEmail, !.password = "p", !.is_admin = TRUE]),
       Request("request_topup", AdminEmail, [NoInput EXCEPT !.amount = ListLimit + 2]),
       Request("approve_topup", AdminEmail, [NoInput EXCEPT !.id = 1, !.notes = "ok"]),
       Request("create_product", AdminEmail, [NoInput EXCEPT !.amount = 1]) >>)

HistoryStore ==
  LET buyer == HistoryBase.users[FindUserByEmail(HistoryBase.users, AdminEmail)]
      product == HistoryBase.products[1]
  IN [HistoryBase EXCEPT
        !.users = IncWallet(@, buyer.id, -((ListLimit - 1) * product.price)),
        !.purchases = [k \in 1..(ListLimit - 1) |->
                         Purchase(k, buyer.id, product.id, product.price)]]

HistoryInit ==
  /\ db \in {EmptyStore, HistoryStore}
  /\ reqs = [s \in 1..MaxInFlight |-> Idle]

HistorySpec == HistoryInit /\ [][Next]_vars

(* ------------- requests that fail part-way (FaultSpec) ---------------- *)
RECURSIVE SumAmounts(_)
SumAmounts(docs) == IF docs = <<>> THEN 0 ELSE Head(docs).amount + SumAmounts(Tail(docs))

ApprovedOf(d, uid) ==
  SelectSeq(d.topup_requests, LAMBDA t : t.user_id = uid /\ t.status = "approved")

\* how far user uid's balance is from what the approved top-ups and the purchase
\* records account for: writes of failed requests that were not undone
Drift(d, uid) ==
  d.users[FindById(d.users, uid)].wallet_balance
    - (SumAmounts(ApprovedOf(d, uid)) - SumAmounts(SelectByUser(d.purchases, uid)))

\* the model explores a failing request only while it leaves every balance within
\* MaxDrift of the accounted one
WithinDrift(d) ==
  \A u \in 1..Len(d.users) :
    /\ Drift(d, d.users[u].id) <= MaxDrift
    /\ -Drift(d, d.users[u].id) <= MaxDrift

\* one request, served until one of its store operations raises
ServeFailing(op) ==
  \E token \in SerialTokensOf(op), in \in Inputs(db, op), at \in FailPoints(op) :
    /\ Room(db, op)
    /\ LET s == RunFailing(db, Request(op, token, in), at) IN
         /\ s.r.status = 500
         /\ WithinDrift(s.db)
         /\ db' = s.db
         /\ reqs' = [reqs EXCEPT ![1] = s.r]

\* a store the program reaches: an admin and a user, no top-up yet
AccountsStore ==
  RunAll(EmptyStore,
    << Request("register", BadToken,
               [NoInput EXCEPT !.email = AdminEmail, !.password = "p", !.is_admin = TRUE]),
       Request("register", BadToken,
               [NoInput EXCEPT !.email = UserEmail, !.password = "p"]) >>)

FaultInit ==
  /\ db = AccountsStore
  /\ reqs = [s \in 1..MaxInFlight |-> Idle]

\* the top-up routes, each served to completion or until it fails
FaultNext ==
  \/ Serve("request_topup")
  \/ Serve("approve_topup")
  \/ Serve("reject_topup")
  \/ ServeFailing("request_topup")
  \/ ServeFailing("approve_topup")
  \/ ServeFailing("reject_topup")

FaultSpec == FaultInit /\ [][FaultNext]_vars

(* ------------------------------ claims -------------------------------- *)
\* the elements of a sequence
Range(seq) == {seq[i] : i \in 1..Len(seq)}

\* the response of the last request served (Spec, HistorySpec)
last == reqs[1]

PurchaseOf(token, pid) == Request("purchase_product", token, [NoInput EXCEPT !.id = pid])

\* the purchase contract on store d for caller token and product pid; `listed` says
\* when the new record must be in the caller's GET /purchases
PurchaseContract(d, token, pid, listed(_)) ==
  LET u == FindUserByEmail(d.users, token)
      s == Run(d, PurchaseOf(token, pid))
      price == d.products[pid].price
      rec == s.db.purchases[Len(s.db.purchases)]
      history == Run(s.db, Request("get_user_purchases", token, NoInput)).r
  IN (u # 0 /\ d.users[u].wallet_balance >= price) =>
       /\ s.r.status = 200
       /\ s.db.users = [d.users EXCEPT ![u].wallet_balance = @ - price]
       /\ Len(s.db.purchases) = Len(d.purchases) + 1
       /\ SubSeq(s.db.purchases, 1, Len(d.purchases)) = d.purchases
       /\ rec.user_id = d.users[u].id /\ rec.product_id = pid /\ rec.amount = price
       /\ \A i \in 1..Len(d.purchases) : d.purchases[i].id # rec.id
       /\ s.db.products = d.products /\ s.db.topup_requests = d.topup_requests
       /\ s.db.blog_posts = d.blog_posts
       /\ history.status = 200
       /\ listed(SelectByUser(s.db.purchases, rec.user_id)) => rec \in Range(history.body)

Always(mine) == TRUE
WithinListLimit(mine) == Len(mine) <= ListLimit

\* C1 (as stated): a purchase at or below the balance succeeds, debits exactly the
\* price, adds exactly one purchase record, and GET /purchases then returns that
\* record; nothing else changes.
C1_PurchaseListedAlways ==
  \A token \in Emails, pid \in 1..Len(db.products) :
    PurchaseContract(db, token, pid, Always)

\* C1 (amended): as above, the new record being returned by GET /purchases
\* whenever the caller then has at most ListLimit (100) purchase records.
C1_PurchaseWithinBalance ==
  \A token \in Emails, pid \in 1..Len(db.products) :
    PurchaseContract(db, token, pid, WithinListLimit)

\* a purchase has just succeeded with the balance exactly equal to the price
C1_Witness ==
  /\ last.op = "purchase_product" /\ last.status = 200
  /\ \E i \in 1..Len(db.users) :
       /\ db.users[i].id = last.body[1].user_id
       /\ db.users[i].wallet_balance = 0
       /\ last.body[1].amount > 0

\* C2: a purchase of an existing product priced strictly above the caller's balance
\* fails with 400 and leaves the store (balances and purchase records) unchanged.
C2_InsufficientBalanceRejected ==
  \A token \in Emails, pid \in 1..Len(db.products) :
    LET u == FindUserByEmail(db.users, token)
        s == Run(db, PurchaseOf(token, pid))
    IN (u # 0 /\ db.products[pid].price > db.users[u].wallet_balance) =>
         /\ s.r.status = 400
         /\ s.r.body = <<"Insufficient wallet balance">>
         /\ s.db = db

\* a purchase has just been refused for insufficient balance
C2_Witness ==
  /\ last.op = "purchase_product" /\ last.status = 400
  /\ Len(db.products) > 0

ApproveOf(token, tid, notes) ==
  Request("approve_topup", token, [NoInput EXCEPT !.id = tid, !.notes = notes])
RejectOf(token, tid, notes) ==
  Request("reject_topup", token, [NoInput EXCEPT !.id = tid, !.notes = notes])

IsAdminToken(d, token) ==
  LET a == FindUserByEmail(d.users, token) IN a # 0 /\ d.users[a].is_admin

\* C3: an admin's approval of a pending top-up of amount a owned by a user with
\* balance b leaves that user's balance at b + a and the top-up approved; no other
\* balance and no other top-up changes.
C3_ApproveCredits ==
  \A token \in Emails, tid \in 1..Len(db.topup_requests), notes \in {None, "ok"} :
    LET t == db.topup_requests[tid]
        o == FindById(db.users, t.user_id)
        s == Run(db, ApproveOf(token, tid, notes))
    IN (IsAdminToken(db, token) /\ t.status = "pending") =>
         /\ s.r.status = 200
         /\ o # 0
         /\ s.db.users = [db.users EXCEPT ![o].wallet_balance = @ + t.amount]
         /\ s.db.topup_requests =
              [db.topup_requests EXCEPT ![tid].status = "approved",
                                        ![tid].processed_at = "utcnow",
                                        ![tid].admin_notes = notes]
         /\ s.db.products = db.products /\ s.db.purchases = db.purchases
         /\ s.db.blog_posts = db.blog_posts

\* an approval has just succeeded for a user who already held a balance
C3_Witness ==
  /\ last.op = "approve_topup" /\ last.status = 200
  /\ \E i \in 1..Len(db.topup_requests), u \in 1..Len(db.users) :
       /\ db.topup_requests[i].status = "approved"
       /\ db.users[u].id = db.topup_requests[i].user_id
       /\ db.users[u].wallet_balance > db.topup_requests[i].amount

\* C4: with requests served one after another, approve_topup or reject_topup on a
\* top-up already approved or rejected fails with 400 "Request already processed"
\* and changes nothing; approving a pending top-up twice credits the wallet once.
C4_ProcessedOnce ==
  \A token \in Emails, tid \in 1..Len(db.topup_requests) :
    LET t == db.topup_requests[tid]
        first == Run(db, ApproveOf(token, tid, "ok"))
        second == Run(first.db, ApproveOf(token, tid, None))
    IN IsAdminToken(db, token) =>
         /\ t.status \in {"approved", "rejected"} =>
              \A r \in {ApproveOf(token, tid, None), ApproveOf(token, tid, "ok"),
                        RejectOf(token, tid, ""), RejectOf(token, tid, "no")} :
                /\ Run(db, r).r.status = 400
                /\ Run(db, r).r.body = <<"Request already processed">>
                /\ Run(db, r).db = db
         /\ t.status = "pending" =>
              /\ first.r.status = 200
              /\ second.r.status = 400
              /\ second.db = first.db
              /\ second.db.users = IncWallet(db.users, t.user_id, t.amount)

\* an approval or rejection has just been refused although a top-up exists
C4_Witness ==
  /\ last.op \in {"approve_topup", "reject_topup"} /\ last.status = 400
  /\ \E i \in 1..Len(db.topup_requests) : db.topup_requests[i].status = "approved"

\* C6: with requests served one after another, every user's wallet_balance equals
\* the sum of that user's approved top-ups minus the sum of that user's purchases.
C6_BalanceIsLedger ==
  \A u \in 1..Len(db.users) :
    db.users[u].wallet_balance =
      SumAmounts(ApprovedOf(db, db.users[u].id))
        - SumAmounts(SelectByUser(db.purchases, db.users[u].id))

\* a user with an approved top-up and a purchase
C6_Witness ==
  \E u \in 1..Len(db.users) :
    /\ Len(ApprovedOf(db, db.users[u].id)) > 0
    /\ Len(SelectByUser(db.purchases, db.users[u].id)) > 0
    /\ db.users[u].wallet_balance > 0

AdminOps == {"create_product", "get_all_topup_requests", "approve_topup",
             "reject_topup", "create_blog_post"}

\* C7: every admin-only route called by an authenticated non-admin returns 403 and
\* leaves the store unchanged, whether or not the targeted id exists.
C7_NonAdminForbidden ==
  \A token \in Emails, op \in AdminOps :
    \A in \in Inputs(db, op) :
      LET u == FindUserByEmail(db.users, token)
          s == Run(db, Request(op, token, in))
      IN (u # 0 /\ ~db.users[u].is_admin) =>
           /\ s.r.status = 403
           /\ s.db = db

\* a non-admin has just been refused the approval of a pending top-up
C7_Witness ==
  /\ last.op = "approve_topup" /\ last.status = 403
  /\ \E i \in 1..Len(db.topup_requests) : db.topup_requests[i].status = "pending"

\* C8: register with an email that belongs to a stored user fails with 400, inserts
\* no user document and leaves the stored user document unchanged.
C8_DuplicateEmailRejected ==
  \A in \in RegisterInputs :
    LET s == Run(db, Request("register", BadToken, in)) IN
      (\E i \in 1..Len(db.users) : db.users[i].email = in.email) =>
        /\ s.r.status = 400
        /\ s.r.body = <<"Email already registered">>
        /\ s.db = db

\* a registration has just been refused
C8_Witness ==
  /\ last.op = "register" /\ last.status = 400
  /\ Len(db.users) > 0

\* C5: once a top-up's status is approved or rejected it never changes again, in
\* every interleaving of approve_topup and reject_topup requests.
C5_StatusImmutable ==
  [][\A i \in 1..Len(db.topup_requests) :
       db.topup_requests[i].status # "pending" =>
         db'.topup_requests[i].status = db.topup_requests[i].status]_vars

\* C9: no two stored user documents have the same email, in every interleaving of
\* register requests.
C9_EmailUnique ==
  \A i, j \in 1..Len(db.users) :
    i # j => db.users[i].email # db.users[j].email

\* C10: a purchase request that passed the balance check against the user snapshot
\* read at authentication applies its debit whatever the stored balance has become,
\* so two concurrent purchases can overdraw the wallet (C10_Witness).
C10_DebitIgnoresStoredBalance ==
  [][\A s \in 1..MaxInFlight :
       (reqs[s].op = "purchase_product" /\ reqs[s].pc = "dec" /\ reqs'[s] # reqs[s]) =>
         LET i == FindById(db.users, reqs[s].cu.id) IN
           /\ i # 0
           /\ reqs[s].cu.wallet_balance >= reqs[s].product.price
           /\ reqs'[s].pc = "insert"
           /\ db'.users = [db.users EXCEPT ![i].wallet_balance = @ - reqs[s].product.price]]_vars

\* two concurrent purchases by one user have both succeeded, every price and
\* top-up amount being non-negative, and the user's balance is below zero
C10_Witness ==
  /\ \A i \in 1..Len(db.products) : db.products[i].price >= 0
  /\ \A i \in 1..Len(db.topup_requests) : db.topup_requests[i].amount >= 0
  /\ \A s \in 1..MaxInFlight : reqs[s].op = "purchase_product" /\ reqs[s].status = 200
  /\ reqs[1].body[1].id # reqs[2].body[1].id
  /\ reqs[1].body[1].user_id = reqs[2].body[1].user_id
  /\ \E u \in 1..Len(db.users) :
       /\ db.users[u].id = reqs[1].body[1].user_id
       /\ db.users[u].wallet_balance < 0
       /\ Len(SelectByUser(db.purchases, db.users[u].id)) = 2

AllDone == \A s \in 1..MaxInFlight : reqs[s].pc = "done"

\* what has been credited to user uid in all: the balance plus what the purchase
\* records say was debited (every debit has its record once all requests are done)
CreditedTo(d, uid) ==
  d.users[FindById(d.users, uid)].wallet_balance + SumAmounts(SelectByUser(d.purchases, uid))

\* C11: each top-up credits its owner's wallet at most once, and not at all when it
\* ends rejected, in every interleaving of approve_topup and reject_topup requests:
\* once all requests are done, what a user has been credited in all is at most the
\* sum of the amounts of that user's approved top-ups.
C11_CreditedAtMostOnce ==
  AllDone =>
    \A u \in 1..Len(db.users) :
      CreditedTo(db, db.users[u].id) <= SumAmounts(ApprovedOf(db, db.users[u].id))

\* C12: approve_topup has no compensating action: when an admin's approval of a
\* pending top-up of amount a fails at the status write, after the wallet increment,
\* the request ends in error with the owner's balance increased by a and the top-up
\* still pending; a later approval of the same top-up then succeeds and leaves the
\* balance increased by 2a.
C12_NoCompensation ==
  \A token \in Emails, tid \in 1..Len(db.topup_requests), notes \in {None, "ok"} :
    LET t == db.topup_requests[tid]
        o == FindById(db.users, t.user_id)
        failed == RunFailing(db, ApproveOf(token, tid, notes), "set")
        later == Run(failed.db, ApproveOf(token, tid, notes))
    IN (IsAdminToken(db, token) /\ t.status = "pending") =>
         /\ o # 0
         /\ failed.r.status = 500
         /\ failed.db = [db EXCEPT !.users[o].wallet_balance = @ + t.amount]
         /\ failed.db.topup_requests[tid].status = "pending"
         /\ later.r.status = 200
         /\ later.db.users = [db.users EXCEPT ![o].wallet_balance = @ + 2 * t.amount]
         /\ later.db.topup_requests[tid].status = "approved"

\* an approval has just succeeded on a store holding a single top-up and no purchase,
\* and the owner's balance is twice the top-up's amount: an earlier approval of it
\* failed after the increment
C12_Witness ==
  /\ last.op = "approve_topup" /\ last.status = 200
  /\ Len(db.topup_requests) = 1 /\ db.purchases = <<>>
  /\ db.topup_requests[1].status = "approved"
  /\ db.topup_requests[1].amount > 0
  /\ db.users[FindById(db.users, db.topup_requests[1].user_id)].wallet_balance
       = 2 * db.topup_requests[1].amount

\* C13: an admin's reject_topup on a pending top-up succeeds and changes only that
\* top-up's status (to rejected), processed_at and admin_notes: every user's
\* wallet_balance, the top-up's amount and user_id, every other top-up, all purchase
\* records and every other collection are unchanged.
C13_RejectFrame ==
  \A token \in Emails, tid \in 1..Len(db.topup_requests), notes \in {"", "no"} :
    LET t == db.topup_requests[tid]
        s == Run(db, RejectOf(token, tid, notes))
    IN (IsAdminToken(db, token) /\ t.status = "pending") =>
         /\ s.r.status = 200
         /\ s.db.topup_requests[tid] =
              [t EXCEPT !.status = "rejected", !.processed_at = "utcnow",
                        !.admin_notes = notes]
         /\ s.db.topup_requests[tid].amount = t.amount
         /\ s.db.topup_requests[tid].user_id = t.user_id
         /\ Len(s.db.topup_requests) = Len(db.topup_requests)
         /\ \A i \in 1..Len(db.topup_requests) :
              i # tid => s.db.topup_requests[i] = db.topup_requests[i]
         /\ s.db.users = db.users
         /\ s.db.purchases = db.purchases
         /\ s.db.products = db.products /\ s.db.blog_posts = db.blog_posts

\* a rejection has just succeeded while purchase records exist, another top-up stays
\* approved and its owner holds a balance
C13_Witness ==
  /\ last.op = "reject_topup" /\ last.status = 200
  /\ Len(db.purchases) > 0
  /\ \E i, j \in 1..Len(db.topup_requests) :
       /\ db.topup_requests[i].status = "rejected"
       /\ db.topup_requests[i].processed_at = "utcnow"
       /\ db.topup_requests[j].status = "approved"
       /\ db.users[FindById(db.users, db.topup_requests[j].user_id)].wallet_balance > 0

RECURSIVE SumSeq(_)
SumSeq(ns) == IF ns = <<>> THEN 0 ELSE Head(ns) + SumSeq(Tail(ns))

\* what the requests in flight have written to user uid's wallet and not yet
\* answered for: the debit of a purchase whose record is still to be inserted,
\* less the credit of an approval that has still to return
InFlight(rs, uid) ==
  SumSeq([s \in 1..MaxInFlight |->
            IF rs[s].op = "purchase_product" /\ rs[s].pc = "insert" /\ rs[s].cu.id = uid
            THEN rs[s].product.price
            ELSE IF rs[s].op = "approve_topup" /\ rs[s].pc = "set"
                    /\ rs[s].request.user_id = uid
                 THEN -rs[s].request.amount
                 ELSE 0])

\* user uid's balance plus the amounts of the user's purchase records, requests in
\* flight accounted for; equal to CreditedTo once all requests are done
Accounted(d, rs, uid) == CreditedTo(d, uid) + InFlight(rs, uid)

\* the amount of the approve_topup call for a top-up of user uid that returns
\* success in this step, 0 if none does
ReturnedApproval(uid) ==
  SumSeq([s \in 1..MaxInFlight |->
            IF reqs[s].op = "approve_topup" /\ reqs[s].pc = "set"
               /\ reqs'[s].pc = "done" /\ reqs'[s].status = 200
               /\ reqs[s].request.user_id = uid
            THEN reqs[s].request.amount
            ELSE 0])

\* C14: wallet increments are never lost, in every interleaving of approve_topup and
\* purchase_product requests: in every step, a user's balance plus the amounts of the
\* user's purchase records (requests in flight accounted for) grows by exactly the
\* amount of the approve_topup call that returns success in that step, so that once
\* all requests are done the balance is the starting balance plus the amounts of the
\* approvals that returned success minus the amounts of the purchase records created.
C14_IncrementsNotLost ==
  [][\A u \in 1..Len(db.users) :
       Accounted(db', reqs', db.users[u].id)
         = Accounted(db, reqs, db.users[u].id) + ReturnedApproval(db.users[u].id)]_vars

\* an approval and a purchase for the same user are in flight together, the purchase
\* having read the balance before the credit, and both increments are in the stored
\* balance
C14_Witness ==
  \E s, t \in 1..MaxInFlight :
    /\ reqs[s].op = "approve_topup" /\ reqs[s].pc = "set"
    /\ reqs[t].op = "purchase_product" /\ reqs[t].pc = "insert"
    /\ reqs[t].cu.id = reqs[s].request.user_id
    /\ reqs[s].request.amount > 0 /\ reqs[t].product.price > 0
    /\ db.users[FindById(db.users, reqs[t].cu.id)].wallet_balance
         = reqs[t].cu.wallet_balance + reqs[s].request.amount - reqs[t].product.price

====
